---- MODULE Spec2Model ----
(***************************************************************************)
(* OAuth Implicit Grant support of the electron-react-boilerplate fork.     *)
(*                                                                         *)
(* Three specifications are given:                                        *)
(*   Spec      the renderer: class App (App.tsx) and class OAuthImplicit   *)
(*             (OAuthImplicit.ts), driven by the user's clicks, by         *)
(*             'url-action' IPC messages and by the completion of the      *)
(*             /oauth/userinfo request;                                    *)
(*   MainSpec  the main process (main.dev.ts): single-instance lock,       *)
(*             protocol registration, the three activation channels and    *)
(*             handleAppURL;                                               *)
(*   UrlSpec   startLogin's authorization URL under every setting of the   *)
(*             redirect (scheme, slash count, return path, intermediate    *)
(*             page).                                                      *)
(***************************************************************************)
EXTENDS Integers, Sequences, FiniteSets, Bags, TLC

\* ------------------------------------------------------------------ bounds
\* Number of second-instance and open-url events delivered to one process.
MaxActivations == 2
\* Number of startLogin calls explored (each draws a fresh id and window).
MaxLogins == 3
\* Largest len given to generateId, besides the default.
MaxIdLen == 8
\* Number of urlActionListener invocations suspended at an await at once.
MaxInflight == 2

\* --------------------------------------------------------------- constants
\* const expirationBuffer = 10 * 60
expirationBuffer == 600
\* process.env.SCHEME_NAME
SCHEME_NAME == "com.example.electron1"
\* process.env.IMPLICIT_RETURN_PATH
IMPLICIT_RETURN_PATH == "implicit-result"
\* oauthState: string | null = null  -- the null value of oauthState
NullState == 0
\* loginWindow: Window | null = null -- the null value of loginWindow
NoWindow == 0
\* A state value no generateId call ever returned (a forged callback).
ForgedState == -1
\* static generateId(len = 40)
DefaultIdLen == 40
\* The state field of an action that has none (undefined)
Undefined == -2

\* ------------------------------------------------------------------ inputs
\* access_token and expires_in of the callbacks explored: a long-lived token
\* and one that expires within the expiration buffer.
OAuthPayloads ==
    { [accessToken |-> "tokA", expiresIn |-> 3600],
      [accessToken |-> "tokB", expiresIn |-> 300] }
\* Value of new Date().getTime() (ms) read while a callback is processed.
NowValues == {1000}

\* Accounts of the /oauth/userinfo payloads; account_id is a character sequence.
ShortAccount(d) ==
    [account_id |-> <<"a", "b", "c">>, account_name |-> "Short",
     base_uri |-> "https://short.example", is_default |-> d]
LongAccount(d) ==
    [account_id |-> <<"a", "b", "c", "d", "e", "f", "0", "1", "2", "3", "4", "5">>,
     account_name |-> "Acme", base_uri |-> "https://acme.example", is_default |-> d]
\* JSON bodies the provider may answer with: no default account, exactly one
\* (not the first of the list), and two.
UserInfos ==
    { [name |-> "Ann", email |-> "ann@example.com",
       accounts |-> <<ShortAccount(FALSE), LongAccount(FALSE)>>],
      [name |-> "Ann", email |-> "ann@example.com",
       accounts |-> <<ShortAccount(FALSE), LongAccount(TRUE)>>],
      [name |-> "Bob", email |-> "bob@example.com",
       accounts |-> <<ShortAccount(TRUE), LongAccount(TRUE)>>] }

VARIABLES
    \* ---- renderer: App.state
    showHomePage,   \* App.state.showHomePage
    session,        \* <<>> when the eight auth fields are null, else <<record>>
    \* ---- renderer: OAuthImplicit instance
    loginWindow,    \* this.loginWindow (NoWindow or a window handle)
    oauthState,     \* this.oauthState (NullState or a generated id)
    inflight,       \* bag of urlActionListener invocations suspended at an await
    \* ---- renderer environment
    openWindows,    \* handles returned by window.open and not yet closed
    nextId,         \* index of the next generateId / window.open call
    \* ---- history of the flow (observations, never read by the program)
    ev,             \* the last handler that ran and what it reported
    phase,          \* the attempt: Idle, Pending, Completing, Cancelled, Succeeded
    quiet,          \* no callback-named activation since the last startLogin
    prevState,      \* id of the previous startLogin when no callback came between
    \* ---- main process (main.dev.ts)
    platform,       \* process.platform
    devMode,        \* NODE_ENV is 'development' or DEBUG_PROD is 'true'
    argv,           \* process.argv
    gotLock,        \* what app.requestSingleInstanceLock() returns
    mpc,            \* "start", "running" (main line done) or "exited"
    quitRequested,  \* app.quit() has been called
    ready,          \* the app's 'ready' event has fired
    creating,       \* a createWindow() call has not yet reached new BrowserWindow
    mainWindow,     \* "null", or the window "loading" or "loaded"
    registered,     \* <<>>, or <<the app.setAsDefaultProtocolClient call>>
    activations,    \* number of second-instance and open-url events so far
    parsed,         \* the URLs handed to parseAppURL, in order
    sent,           \* the actions given to webContents.send('url-action', ..)
    received,       \* the actions that reached the renderer's listener
    \* ---- configuration and what startLogin made of it
    env,            \* process.env: the settings startLogin reads
    authUrl,        \* the URL of the last window.open call, <<>> before the first
    \* ---- generateId on its own
    gen             \* the last generateId call: its len and the string returned

rvars == <<showHomePage, session, loginWindow, oauthState, inflight,
           openWindows, nextId, ev, phase, quiet, prevState>>

mvars == <<platform, devMode, argv, gotLock, mpc, quitRequested, ready, creating,
           mainWindow, registered, activations, parsed, sent, received>>

evars == <<env, authUrl>>

vars == <<rvars, mvars, evars, gen>>

\* ------------------------------------------------------------ pure helpers
\* The hexadecimal digits, 0 first.
HexDigits == <<"0", "1", "2", "3", "4", "5", "6", "7", "8", "9",
               "a", "b", "c", "d", "e", "f">>

\* dec.toString(16) of a byte
ToString16(dec) ==
    IF dec < 16 THEN <<HexDigits[dec + 1]>>
    ELSE <<HexDigits[(dec \div 16) + 1], HexDigits[(dec % 16) + 1]>>

\* String.prototype.substr(-n)
SubstrLast(s, n) == IF Len(s) <= n THEN s ELSE SubSeq(s, Len(s) - n + 1, Len(s))

\* dec2hex without the leading '0'.
Dec2HexUnpadded(dec) == ToString16(dec)

\* dec2hex: `0${dec.toString(16)}`.substr(-2)
Dec2Hex(dec) == SubstrLast(<<"0">> \o ToString16(dec), 2)

\* Array.prototype.join('') of strings
RECURSIVE Join(_)
Join(strs) == IF strs = <<>> THEN <<>> ELSE Head(strs) \o Join(Tail(strs))

\* new Uint8Array((len || 40) / 2): the number of bytes, the length being
\* cut to an integer.
ArrayLength(len) == (IF len = 0 THEN DefaultIdLen ELSE len) \div 2

\* Array.from(arr, dec2hex).join('') for the bytes arr that
\* window.crypto.getRandomValues has filled in.
GenerateIdString(arr) == Join([i \in 1..Len(arr) |-> Dec2Hex(arr[i])])

\* No call of generateId yet.
NoCall == [len |-> 0, out |-> <<>>, called |-> FALSE]

\* generateId returning the same string on every call.
GenerateIdFixed(n) == 1

\* OAuthImplicit.generateId: the n-th call's random hex string. Distinct
\* calls give distinct strings (160 random bits); the string is named by n.
GenerateId(n) == n

\* The name test taking every action for the callback.
IsCallbackAlways(action) == TRUE

\* oauthAction.name !== process.env.IMPLICIT_RETURN_PATH is FALSE
IsCallback(action) == action.name = IMPLICIT_RETURN_PATH

\* The response test that lets every response through.
NotOkNever(resp) == FALSE

\* !userInfoResponse || !userInfoResponse.ok
NotOk(resp) == resp.kind = "notok"

\* The state comparison accepting every state.
StateMatchesAny(expected, got) == TRUE

\* this.oauthState !== oauthAction.state is FALSE
StateMatches(expected, got) == expected = got

\* The first n characters instead of the last.
SliceFirst(s, n) == IF Len(s) <= n THEN s ELSE SubSeq(s, 1, n)

\* String.prototype.slice(-n)
SliceLast(s, n) == IF Len(s) <= n THEN s ELSE SubSeq(s, Len(s) - n + 1, Len(s))

\* userInfo.accounts.filter((acc) => acc.is_default)
DefaultAccounts(userInfo) == SelectSeq(userInfo.accounts, LAMBDA acc : acc.is_default)

\* The expiry without the buffer taken off.
ExpiresNoBuffer(now, expiresIn) == now + expiresIn * 1000

\* expires.getTime() + (oauthAction.expiresIn - expirationBuffer) * 1000
Expires(now, expiresIn) == now + (expiresIn - expirationBuffer) * 1000

\* A request that carries one token whatever the callback brought.
UserInfoRequestFixedToken(action, now) ==
    [accessToken |-> "tokA",
     expires |-> Expires(now, action.expiresIn),
     state |-> action.state]

\* What the listener holds while OAuthImplicit.fetchUserInfo(accessToken)
\* is awaited: the bearer token of the request, the expiry computed before
\* it, and the state of the callback.
UserInfoRequest(action, now) ==
    [accessToken |-> action.accessToken,
     expires |-> Expires(now, action.expiresIn),
     state |-> action.state]

\* The argument of this.app.oAuthResults(...)
OAuthResultsOf(req, userInfo) ==
    LET defaultAccount == DefaultAccounts(userInfo)[1]
    IN  [accessToken |-> req.accessToken,
         expires |-> req.expires,
         name |-> userInfo.name,
         email |-> userInfo.email,
         accountId |-> defaultAccount.account_id,
         externalAccountId |-> SliceLast(defaultAccount.account_id, 10),
         accountName |-> defaultAccount.account_name,
         baseUri |-> defaultAccount.base_uri]

\* A setting of process.env is a string, here the sequence of its
\* characters, or undefined.
Unset == [defined |-> FALSE, s |-> <<>>]
Str(s) == [defined |-> TRUE, s |-> s]

\* `${v}` in a template literal
Template(v) == IF v.defined THEN v.s ELSE <<"undefined">>

\* Two slashes whatever SCHEME_SLASH_COUNT is.
SlashesDouble(e) == <<"//">>

\* process.env.SCHEME_SLASH_COUNT === '1' ? '/' : '//'
Slashes(e) == IF e.SCHEME_SLASH_COUNT = Str(<<"1">>) THEN <<"/">> ELSE <<"//">>

\* `${process.env.SCHEME_NAME}:${slashes}${process.env.IMPLICIT_RETURN_PATH}`
DirectRedirectUrl(e) ==
    Template(e.SCHEME_NAME) \o <<":">> \o Slashes(e) \o Template(e.IMPLICIT_RETURN_PATH)

\* The redirectUrl of startLogin: the intermediate page when it is set, not
\* the empty string and longer than two characters, else the direct URL.
RedirectUrl(e) ==
    <<"redirect_uri=">> \o
        (IF /\ e.IMPLICIT_REDIRECT_URL.defined
            /\ Len(e.IMPLICIT_REDIRECT_URL.s) > 0
            /\ Len(e.IMPLICIT_REDIRECT_URL.s) > 2
         THEN e.IMPLICIT_REDIRECT_URL.s
         ELSE DirectRedirectUrl(e))

\* The url of startLogin, cut at the places where values are put in.
AuthorizationUrl(e, state) ==
    Template(e.IDP_URL) \o <<"/oauth/auth?", "response_type=token&", "scope=">>
        \o Template(e.IMPLICIT_SCOPES) \o <<"&", "client_id=">>
        \o Template(e.IMPLICIT_CLIENT_ID) \o <<"&", "state=", ToString(state), "&">>
        \o RedirectUrl(e)

Event(op, state, result) == [op |-> op, state |-> state, result |-> result]

\* What a callback-named activation did: the state it carried, what the
\* listener reported, and the window closeWindow() was called on.
CallbackEvent(state, result) ==
    [op |-> "urlAction", state |-> state, result |-> result, closed |-> loginWindow]

\* The 'url-action' messages the main process can send (URLActionType): an
\* IOAuthAction named after the return path, or the action of an unrecognized URL.
OAuthActions ==
    { [name |-> IMPLICIT_RETURN_PATH, state |-> s,
       accessToken |-> p.accessToken, expiresIn |-> p.expiresIn] :
          s \in (1..MaxLogins) \cup {ForgedState}, p \in OAuthPayloads }
\* Of an unrecognized URL's action the listener can read the name; its state
\* is undefined.
UnknownAction == [name |-> "unknown", state |-> Undefined]
UrlActions == OAuthActions \cup {UnknownAction}

\* The settings of the config example, with the direct redirect and the two
\* slashes of the callback URLs below.
ConfiguredEnv ==
    [SCHEME_NAME |-> Str(<<SCHEME_NAME>>),
     SCHEME_SLASH_COUNT |-> Str(<<"2">>),
     IDP_URL |-> Str(<<"https://account-d.docusign.com">>),
     IMPLICIT_CLIENT_ID |-> Str(<<"b2b5xxxx">>),
     IMPLICIT_RETURN_PATH |-> Str(<<IMPLICIT_RETURN_PATH>>),
     IMPLICIT_SCOPES |-> Str(<<"signature">>),
     IMPLICIT_REDIRECT_URL |-> Unset]

\* Settings of the redirect: two scheme names and return paths; the slash
\* count unset, empty, '1', '2' and '11'; the intermediate page unset,
\* empty, of two and of three characters, and a URL.
Envs ==
    { [ConfiguredEnv EXCEPT !.SCHEME_NAME = Str(<<n>>),
                            !.IMPLICIT_RETURN_PATH = Str(<<p>>),
                            !.SCHEME_SLASH_COUNT = c,
                            !.IMPLICIT_REDIRECT_URL = r] :
        n \in {SCHEME_NAME, "app2"},
        p \in {IMPLICIT_RETURN_PATH, "cb"},
        c \in {Unset, Str(<<>>), Str(<<"1">>), Str(<<"2">>), Str(<<"1", "1">>)},
        r \in {Unset, Str(<<>>), Str(<<"a", "b">>), Str(<<"a", "b", "c">>),
               Str(<<"h", "t", "t", "p", ":", "/", "/", "x", "/">>)} }

\* ------------------------------------------------------------------- Init
RendererInit ==
    /\ showHomePage = TRUE
    /\ session = <<>>
    /\ loginWindow = NoWindow
    /\ oauthState = NullState
    /\ inflight = EmptyBag
    /\ openWindows = {}
    /\ nextId = 1
    /\ ev = Event("init", NullState, "none")
    /\ phase = "Idle"
    /\ quiet = FALSE
    /\ prevState = NullState

\* ---------------------------------------------------------------- methods
\* closeWindow closing nothing.
ClosedWindowsNone == {}

\* OAuthImplicit.closeWindow: the window this.loginWindow held, after the call.
ClosedWindows == IF loginWindow # NoWindow THEN {loginWindow} ELSE {}

\* What window.open(url, 'oauth_authentication', '') may return: null, a
\* new window, or the still open window of that name.
WindowOpenResults == {NoWindow, nextId} \cup openWindows

\* OAuthImplicit.startLogin, with w the value window.open returns.
StartLogin(w) ==
    /\ oauthState' = GenerateId(nextId)
    /\ loginWindow' = w
    /\ openWindows' = openWindows \cup ({w} \ {NoWindow})
    /\ nextId' = nextId + 1
    /\ authUrl' = AuthorizationUrl(env, GenerateId(nextId))

\* App.startAuthentication: the Login button of Hello(), rendered when
\* showHomePage is set and accessToken is null.
StartAuthentication ==
    /\ showHomePage
    /\ session = <<>>
    /\ nextId <= MaxLogins
    /\ session' = <<>>
    /\ showHomePage' = FALSE
    /\ \E w \in WindowOpenResults : StartLogin(w)
    /\ ev' = Event("startAuthentication", NullState, "none")
    /\ phase' = "Pending"
    /\ quiet' = TRUE
    /\ prevState' = IF quiet THEN oauthState ELSE NullState
    /\ UNCHANGED inflight

\* cancelAuthentication callable on the home page as well.
CancelAuthenticationAnywhere ==
    /\ showHomePage' = TRUE
    /\ session' = <<>>
    /\ openWindows' = openWindows \ ClosedWindows
    /\ loginWindow' = NoWindow
    /\ ev' = Event("cancelAuthentication", NullState, "none")
    /\ phase' = "Cancelled"
    /\ UNCHANGED <<oauthState, inflight, nextId, quiet, prevState>>

\* App.cancelAuthentication: the "cancel login" link of Login(), rendered
\* when showHomePage is not set.
CancelAuthentication ==
    /\ ~showHomePage
    /\ showHomePage' = TRUE
    /\ session' = <<>>
    /\ openWindows' = openWindows \ ClosedWindows
    /\ loginWindow' = NoWindow
    /\ ev' = Event("cancelAuthentication", NullState, "none")
    /\ phase' = "Cancelled"
    /\ UNCHANGED <<oauthState, inflight, nextId, quiet, prevState>>

\* App.logout: the logout link of UserInformationBlock(), rendered on the
\* home page when accessToken is set.
Logout ==
    /\ showHomePage
    /\ session # <<>>
    /\ session' = <<>>
    /\ ev' = Event("logout", NullState, "loggedOut")
    /\ UNCHANGED <<showHomePage, loginWindow, oauthState, inflight,
                   openWindows, nextId, phase, quiet, prevState>>

\* OAuthImplicit.urlActionListener up to its first await (or its return).
UrlActionListener(action, now) ==
    IF ~IsCallback(action)
    THEN /\ ev' = Event("urlAction", NullState, "ignored")
         /\ UNCHANGED <<showHomePage, session, loginWindow, oauthState, inflight,
                        openWindows, nextId, phase, quiet, prevState>>
    ELSE /\ openWindows' = openWindows \ ClosedWindows
         /\ loginWindow' = NoWindow
         /\ quiet' = FALSE
         /\ IF ~StateMatches(oauthState, action.state)
            THEN /\ ev' = CallbackEvent(action.state, "mismatch")
                 /\ phase' = IF phase = "Pending" THEN "Idle" ELSE phase
                 /\ UNCHANGED inflight
            ELSE /\ BagCardinality(inflight) < MaxInflight
                 /\ inflight' = inflight (+) SetToBag({UserInfoRequest(action, now)})
                 /\ ev' = CallbackEvent(action.state, "exchange")
                 /\ phase' = IF phase = "Pending" THEN "Completing" ELSE phase
         /\ UNCHANGED <<showHomePage, session, oauthState, nextId, prevState>>

\* The attempt whose exchange is request req is over once req has resolved.
PhaseAfter(req, result) ==
    IF phase = "Completing" /\ req.state = oauthState
    THEN (IF result = "success" THEN "Succeeded" ELSE "Idle")
    ELSE phase

\* What `await OAuthImplicit.fetchUserInfo(...)` and, for an ok response,
\* `await userInfoResponse.json()` give back: the fetch promise rejects, the
\* response is not ok, or it is ok with a parsed body. A response that is
\* not ok has a body too, which json() could parse.
Responses ==
    {[kind |-> "throw"]}
        \cup {[kind |-> k, body |-> u] : k \in {"notok", "ok"}, u \in UserInfos}

\* urlActionListener resumed after its awaits, through to its end. Between
\* the two awaits the listener reads and writes nothing, so both resumptions
\* are one step.
Resolves(req, resp) ==
    /\ BagIn(req, inflight)
    /\ inflight' = inflight (-) SetToBag({req})
    /\ IF resp.kind = "throw"
       THEN /\ ev' = Event("resolves", NullState, "networkError")
            /\ UNCHANGED <<showHomePage, session>>
       ELSE IF NotOk(resp)
       THEN /\ ev' = Event("resolves", NullState, "httpError")
            /\ UNCHANGED <<showHomePage, session>>
       ELSE IF Len(DefaultAccounts(resp.body)) = 0
       THEN \* defaultAccount is undefined: defaultAccount.account_id throws a
            \* TypeError and the promise urlActionListener returned rejects.
            /\ ev' = Event("resolves", NullState, "threw")
            /\ UNCHANGED <<showHomePage, session>>
       ELSE \* App.oAuthResults
            /\ session' = <<OAuthResultsOf(req, resp.body)>>
            /\ showHomePage' = TRUE
            /\ ev' = Event("resolves", NullState, "success")
    /\ phase' = PhaseAfter(req, ev'.result)
    /\ UNCHANGED <<loginWindow, oauthState, openWindows, nextId, quiet, prevState>>

\* =========================================================== main process
\* Command-line arguments and URLs are strings cut into tokens, so that
\* "starts with the scheme name" is a test of the first token.
protocolLauncherArg == <<"--protocol-launcher">>
possibleProtocols == <<SCHEME_NAME>>
ExecPath == <<"electron1.exe">>

Url(scheme, path, state, token) == <<scheme, "://", path, "#", state, token>>
\* The redirect of the identity provider, a URL of this scheme with another
\* path, and a URL of another scheme.
CallbackUrl == Url(SCHEME_NAME, IMPLICIT_RETURN_PATH, "S1", "tokA")
OtherPathUrl == Url(SCHEME_NAME, "other", "S9", "tokZ")
ForeignUrl == Url("https", "example.com", "S9", "tokZ")

\* parseAppURL of parse-app-url.ts: an OAuth action for a URL of the
\* configured scheme and return path that carries a state and an access
\* token, the unknown action for anything else.
ParseAppURL(url) ==
    IF /\ Len(url) = 6
       /\ url[1] = SCHEME_NAME
       /\ url[3] = IMPLICIT_RETURN_PATH
    THEN [name |-> IMPLICIT_RETURN_PATH, state |-> url[5], accessToken |-> url[6]]
    ELSE [name |-> "unknown", url |-> url]

\* arg.indexOf(protocol) === 0
StartsWith(arg, protocol) == Len(arg) >= 1 /\ arg[1] = protocol

\* The flag taken as found in the first place.
FlagIndexFirst(args) == 1

\* args.findIndex((v) => v === protocolLauncherArg), 0 standing for -1
FlagIndex(args) ==
    IF \E i \in 1..Len(args) : args[i] = protocolLauncherArg
    THEN CHOOSE i \in 1..Len(args) :
            /\ args[i] = protocolLauncherArg
            /\ \A j \in 1..(i - 1) : args[j] # protocolLauncherArg
    ELSE 0

\* args.find(...): the arguments that start with one of possibleProtocols
ProtocolArgs(args) ==
    SelectSeq(args, LAMBDA arg :
        \E k \in 1..Len(possibleProtocols) : StartsWith(arg, possibleProtocols[k]))

\* handlePossibleProtocolLauncherArgs: <<url>> when handleAppURL(url) is
\* called, <<>> when it is not.
ProtocolLauncherUrl(args) ==
    IF platform = "win32"
    THEN IF FlagIndex(args) = 0 THEN <<>>
         ELSE IF Len(ProtocolArgs(args)) = 0 THEN <<>>
         ELSE <<ProtocolArgs(args)[1]>>
    ELSE IF Len(args) > 1 THEN <<args[2]>> ELSE <<>>

\* handleAppURL sending whether there is a window or not.
HandleAppURLsAlways(urls) ==
    /\ parsed' = parsed \o urls
    /\ received' = received
    /\ sent' = IF urls = <<>> THEN sent ELSE Append(sent, ParseAppURL(urls[1]))

\* handleAppURL for each URL of urls (none or one).
HandleAppURLs(urls) ==
    /\ parsed' = parsed \o urls
    /\ IF mainWindow = "null" \/ urls = <<>>
       THEN UNCHANGED <<sent, received>>
       ELSE /\ sent' = Append(sent, ParseAppURL(urls[1]))
            /\ IF mainWindow = "loaded"
               THEN received' = Append(received, ParseAppURL(urls[1]))
               ELSE \* the page is still loading: App may not have subscribed
                    \* to 'url-action' yet
                    received' \in {received, Append(received, ParseAppURL(urls[1]))}

\* path.resolve(p) of a relative path: the working directory put in front.
PathResolve(p) == <<"cwd/">> \o p

\* A registration that leaves the launcher flag out.
DefaultProtocolClientArgsNoFlag ==
    [protocol |-> SCHEME_NAME, path |-> ExecPath, args |-> <<>>]

\* The arguments of app.setAsDefaultProtocolClient(protocol, ...).
DefaultProtocolClientArgs ==
    IF platform = "win32" /\ devMode
    THEN [protocol |-> SCHEME_NAME, path |-> ExecPath,
          args |-> <<argv[2], PathResolve(argv[3]), PathResolve(argv[4]),
                     protocolLauncherArg>>]
    ELSE IF platform = "win32"
    THEN [protocol |-> SCHEME_NAME, path |-> ExecPath, args |-> <<protocolLauncherArg>>]
    ELSE [protocol |-> SCHEME_NAME, path |-> <<>>, args |-> <<>>]

\* process.argv without launch arguments.
BaseArgv(dev) ==
    IF dev THEN <<ExecPath, <<"-r">>, <<"BabelRegister">>, <<"main.dev.ts">>>>
    ELSE <<ExecPath>>

\* What may follow: nothing, a URL alone, the launcher flag and a URL, the
\* flag alone, and a URL of this scheme ahead of the flag and the callback.
ArgTails ==
    { <<>>, <<CallbackUrl>>, <<protocolLauncherArg, CallbackUrl>>,
      <<protocolLauncherArg>>, <<protocolLauncherArg, ForeignUrl>>,
      <<OtherPathUrl, protocolLauncherArg, CallbackUrl>> }

ArgLists(dev) == {BaseArgv(dev) \o t : t \in ArgTails}

\* The command line Windows runs for a URL of a registered scheme:
\* `[executable path] [registered arguments] "%1"`.
ActivationArgs(reg, url) == <<reg.path>> \o reg.args \o <<url>>

\* The URLs the operating system hands to the handler of the scheme.
SchemeUrls == {CallbackUrl, OtherPathUrl}

\* The argument lists a duplicate can have been started with: any of
\* ArgLists and, on Windows, the command line of this process's registration.
SecondInstanceArgs ==
    ArgLists(TRUE) \cup ArgLists(FALSE) \cup
        (IF platform = "win32"
         THEN {ActivationArgs(registered[i], url) :
                  i \in 1..Len(registered), url \in SchemeUrls}
         ELSE {})

MainInit ==
    /\ platform \in {"darwin", "win32", "linux"}
    /\ devMode \in BOOLEAN
    /\ argv \in ArgLists(devMode)
    /\ gotLock \in BOOLEAN
    /\ mpc = "start"
    /\ quitRequested = FALSE
    /\ ready = FALSE
    /\ creating = FALSE
    /\ mainWindow = "null"
    /\ registered = <<>>
    /\ activations = 0
    /\ parsed = <<>>
    /\ sent = <<>>
    /\ received = <<>>

\* The main line of main.dev.ts, from requestSingleInstanceLock to the end
\* of the script. app.quit() returns to the script, which runs on.
MainLine ==
    /\ mpc = "start"
    /\ mpc' = "running"
    /\ quitRequested' = ~gotLock
    /\ IF platform = "win32" /\ Len(argv) > 1
       THEN HandleAppURLs(ProtocolLauncherUrl(argv))
       ELSE UNCHANGED <<parsed, sent, received>>
    /\ UNCHANGED <<platform, devMode, argv, gotLock, ready, creating, mainWindow,
                   registered, activations>>

\* The process ends after app.quit().
Exit ==
    /\ mpc = "running"
    /\ quitRequested
    /\ mpc' = "exited"
    /\ UNCHANGED <<platform, devMode, argv, gotLock, quitRequested, ready, creating,
                   mainWindow, registered, activations, parsed, sent, received>>

\* The 'ready' event: app.on('ready') registers the protocol client and
\* app.whenReady() calls createWindow.
Ready ==
    /\ mpc = "running"
    /\ ~ready
    /\ ready' = TRUE
    /\ registered' = <<DefaultProtocolClientArgs>>
    /\ creating' = TRUE
    /\ UNCHANGED <<platform, devMode, argv, gotLock, mpc, quitRequested, mainWindow,
                   activations, parsed, sent, received>>

\* createWindow reaches mainWindow = new BrowserWindow(...) and loadURL.
CreateWindow ==
    /\ mpc = "running"
    /\ creating
    /\ creating' = FALSE
    /\ mainWindow' = "loading"
    /\ UNCHANGED <<platform, devMode, argv, gotLock, mpc, quitRequested, ready,
                   registered, activations, parsed, sent, received>>

\* 'did-finish-load': the page is loaded and App.componentDidMount has
\* subscribed urlActionListener to 'url-action'.
DidFinishLoad ==
    /\ mpc = "running"
    /\ mainWindow = "loading"
    /\ mainWindow' = "loaded"
    /\ UNCHANGED <<platform, devMode, argv, gotLock, mpc, quitRequested, ready,
                   creating, registered, activations, parsed, sent, received>>

\* mainWindow.on('closed') and app.on('window-all-closed').
WindowClosed ==
    /\ mpc = "running"
    /\ mainWindow # "null"
    /\ mainWindow' = "null"
    /\ quitRequested' = (quitRequested \/ platform # "darwin")
    /\ UNCHANGED <<platform, devMode, argv, gotLock, mpc, ready, creating,
                   registered, activations, parsed, sent, received>>

\* app.on('activate'): the dock icon is clicked with no window open.
Activate ==
    /\ mpc = "running"
    /\ platform = "darwin"
    /\ ready
    /\ mainWindow = "null"
    /\ ~creating
    /\ creating' = TRUE
    /\ UNCHANGED <<platform, devMode, argv, gotLock, mpc, quitRequested, ready,
                   mainWindow, registered, activations, parsed, sent, received>>

\* app.on('second-instance'): emitted in the process that holds the lock,
\* after 'ready', with the arguments of the duplicate.
SecondInstance(args) ==
    /\ mpc = "running"
    /\ gotLock
    /\ ready
    /\ activations < MaxActivations
    /\ activations' = activations + 1
    /\ HandleAppURLs(ProtocolLauncherUrl(args))
    /\ UNCHANGED <<platform, devMode, argv, gotLock, mpc, quitRequested, ready,
                   creating, mainWindow, registered>>

\* app.on('open-url'), subscribed by the main line on macOS.
OpenUrl(url) ==
    /\ mpc = "running"
    /\ platform = "darwin"
    /\ activations < MaxActivations
    /\ activations' = activations + 1
    /\ HandleAppURLs(<<url>>)
    /\ UNCHANGED <<platform, devMode, argv, gotLock, mpc, quitRequested, ready,
                   creating, mainWindow, registered>>

\* The main process as the renderer's specification sees it: started, its
\* window loaded.
MainRunning ==
    /\ platform = "linux"
    /\ devMode = FALSE
    /\ argv = BaseArgv(FALSE)
    /\ gotLock = TRUE
    /\ mpc = "running"
    /\ quitRequested = FALSE
    /\ ready = TRUE
    /\ creating = FALSE
    /\ mainWindow = "loaded"
    /\ registered = <<DefaultProtocolClientArgs>>
    /\ activations = 0
    /\ parsed = <<>>
    /\ sent = <<>>
    /\ received = <<>>

\* ---------------------------------------------------------- specifications
\* The renderer: the user's clicks, the 'url-action' messages and the
\* answers of the identity provider arrive in any order.
Init == RendererInit /\ MainRunning /\ env = ConfiguredEnv /\ authUrl = <<>> /\ gen = NoCall

Next ==
    \/ StartAuthentication /\ UNCHANGED <<mvars, env, gen>>
    \/ CancelAuthentication /\ UNCHANGED <<mvars, evars, gen>>
    \/ Logout /\ UNCHANGED <<mvars, evars, gen>>
    \/ \E action \in UrlActions, now \in NowValues :
          /\ action \in OAuthActions =>
                 action.state \in (1..(nextId - 1)) \cup {ForgedState}
          /\ UrlActionListener(action, now)
          /\ UNCHANGED <<mvars, evars, gen>>
    \/ \E req \in BagToSet(inflight), resp \in Responses :
          Resolves(req, resp) /\ UNCHANGED <<mvars, evars, gen>>

Spec == Init /\ [][Next]_vars

\* The main process: one process on any platform, started with any of the
\* argument lists, with or without the single-instance lock.
InitMain == MainInit /\ RendererInit /\ env = ConfiguredEnv /\ authUrl = <<>> /\ gen = NoCall

NextMain ==
    \/ MainLine /\ UNCHANGED <<rvars, evars, gen>>
    \/ Exit /\ UNCHANGED <<rvars, evars, gen>>
    \/ Ready /\ UNCHANGED <<rvars, evars, gen>>
    \/ CreateWindow /\ UNCHANGED <<rvars, evars, gen>>
    \/ DidFinishLoad /\ UNCHANGED <<rvars, evars, gen>>
    \/ WindowClosed /\ UNCHANGED <<rvars, evars, gen>>
    \/ Activate /\ UNCHANGED <<rvars, evars, gen>>
    \/ \E args \in SecondInstanceArgs : SecondInstance(args) /\ UNCHANGED <<rvars, evars, gen>>
    \/ \E url \in SchemeUrls : OpenUrl(url) /\ UNCHANGED <<rvars, evars, gen>>

MainSpec == InitMain /\ [][NextMain]_vars

\* startLogin under every setting of the redirect: the user starts and
\* cancels login attempts.
InitUrl == RendererInit /\ MainRunning /\ env \in Envs /\ authUrl = <<>> /\ gen = NoCall

NextUrl ==
    \/ StartAuthentication /\ UNCHANGED <<mvars, env, gen>>
    \/ CancelAuthentication /\ UNCHANGED <<mvars, evars, gen>>

UrlSpec == InitUrl /\ [][NextUrl]_vars

\* generateId called with any len up to MaxIdLen or with none, the random
\* source filling the array with any of three bytes (one byte value over
\* the whole array when len is the default).
RandomBytes == {0, 10, 255}

RandomArrays(n) ==
    IF n <= MaxIdLen \div 2 + 1
    THEN [1..n -> RandomBytes]
    ELSE {[i \in 1..n |-> b] : b \in RandomBytes}

GenerateIdCall(len) ==
    /\ \E arr \in RandomArrays(ArrayLength(len)) :
          gen' = [len |-> len, out |-> GenerateIdString(arr), called |-> TRUE]
    /\ UNCHANGED <<rvars, mvars, evars>>

InitId == Init

NextId == \E len \in (0..MaxIdLen) \cup {DefaultIdLen} : GenerateIdCall(len)

IdSpec == InitId /\ [][NextId]_vars

\* ================================================================= claims
\* No login attempt is in flight: startLogin was never called, or the last
\* attempt failed, was cancelled or has succeeded.
NoAttemptInFlight == phase \in {"Idle", "Cancelled", "Succeeded"}

\* The failures a handler reports to the user.
Failures == {"mismatch", "networkError", "httpError", "malformedPayload"}

\* C1: a callback named after the return path whose state differs from the
\* stored oauthState reports the state-mismatch failure, sends no user-info
\* request and does not call App.oAuthResults, whatever its access token.
C1_StateMismatchFails ==
    [][\A action \in OAuthActions, now \in NowValues :
          (UrlActionListener(action, now) /\ action.state # oauthState)
             => /\ ev'.result = "mismatch"
                /\ inflight' = inflight
                /\ session' = session
                /\ showHomePage' = showHomePage]_vars

\* A callback carrying the state of an earlier startLogin has just been
\* refused while a later attempt's state was stored.
C1_Witness ==
    /\ ev.op = "urlAction"
    /\ ev.result = "mismatch"
    /\ ev.state \in 1..MaxLogins
    /\ oauthState # NullState
    /\ ev.state # oauthState

\* C2: the first callback-named activation after startLogin consumes the
\* expected state: a later callback starts no exchange, and the attempt
\* whose state is stored delivers at most one Success, until startLogin is
\* called again.
C2_StateConsumedOnce ==
    [][/\ \A action \in OAuthActions, now \in NowValues :
             (UrlActionListener(action, now) /\ ~quiet) => inflight' = inflight
       /\ \A req \in BagToSet(inflight), resp \in Responses :
             (Resolves(req, resp) /\ req.state = oauthState /\ phase = "Succeeded")
                => ev'.result # "success"]_vars

\* C3: while a user-info request is outstanding, a further callback-named
\* activation starts no second request, even with the matching state.
C3_NoCallbackDuringExchange ==
    [][\A action \in OAuthActions, now \in NowValues :
          (UrlActionListener(action, now) /\ inflight # EmptyBag)
             => inflight' = inflight]_vars

\* C4: with no login attempt in flight a callback-named activation is
\* ignored: it sends no user-info request and reports no failure.
C4_IdleCallbackIgnored ==
    [][\A action \in OAuthActions, now \in NowValues :
          (UrlActionListener(action, now) /\ NoAttemptInFlight)
             => /\ inflight' = inflight
                /\ ev'.result \notin Failures]_vars

\* C5: after cancelAuthentication the browser handle is null and closed, and
\* until the next startLogin neither a callback with the cancelled attempt's
\* state starts an exchange nor an exchange of that attempt delivers a Success.
C5_CancelAbandons ==
    [][/\ phase' = "Cancelled" =>
             (loginWindow' = NoWindow /\ loginWindow \notin openWindows')
       /\ \A action \in OAuthActions, now \in NowValues :
             (UrlActionListener(action, now) /\ phase = "Cancelled")
                => inflight' = inflight
       /\ \A req \in BagToSet(inflight), resp \in Responses :
             (Resolves(req, resp) /\ phase = "Cancelled" /\ req.state = oauthState)
                => ev'.result # "success"]_vars

\* C6: after two startLogin calls with no callback between them, a callback
\* carrying the first call's state is refused as a state mismatch, and a
\* callback reaches the user-info exchange only with the state the latest
\* startLogin generated.
C6_OnlyLatestAttempt ==
    [][\A action \in OAuthActions, now \in NowValues :
          UrlActionListener(action, now)
             => /\ (prevState # NullState /\ action.state = prevState)
                      => (ev'.result = "mismatch" /\ inflight' = inflight)
                /\ inflight' # inflight
                      => (action.state = oauthState /\ action.state = nextId - 1)]_vars

\* The state of the first of two startLogin calls, with no callback between
\* them, has just been refused.
C6_Witness ==
    /\ prevState # NullState
    /\ ev.op = "urlAction"
    /\ ev.result = "mismatch"
    /\ ev.state = prevState
    /\ oauthState = nextId - 1

\* C7: startLogin closes a browser handle it still holds before it opens the
\* new window, so at most one handle is ever open.
C7_PriorHandleClosed ==
    [][(StartAuthentication /\ loginWindow # NoWindow)
          => (loginWindow \notin openWindows' \/ loginWindow' = loginWindow)]_vars

\* C10: an ok user-info response without a default account ends the
\* listener with a reported MalformedPayload failure, not with a throw.
C10_NoDefaultIsMalformedPayload ==
    [][\A req \in BagToSet(inflight), resp \in Responses :
          (/\ Resolves(req, resp)
           /\ resp.kind = "ok"
           /\ \A i \in 1..Len(resp.body.accounts) : ~resp.body.accounts[i].is_default)
             => /\ ev'.result = "malformedPayload"
                /\ session' = session]_vars

\* C11: an ok user-info response with more than one default account ends
\* the listener with a reported MalformedPayload failure, and no session is
\* built from the first default account.
C11_SeveralDefaultsIsMalformedPayload ==
    [][\A req \in BagToSet(inflight), resp \in Responses :
          (/\ Resolves(req, resp)
           /\ resp.kind = "ok"
           /\ Len(DefaultAccounts(resp.body)) > 1)
             => /\ ev'.result = "malformedPayload"
                /\ session' = session]_vars

ReportedFailures == Failures \cup {"threw"}

\* C13: every failure of a login attempt reaches the App: when a step of
\* urlActionListener ends in a failure while the App shows the Login page,
\* the App's state changes (it leaves the page that waits for the browser).
C13_FailureReachesApp ==
    [][(/\ ev'.op \in {"urlAction", "resolves"}
        /\ ev'.result \in ReportedFailures
        /\ ~showHomePage)
          => <<showHomePage, session>>' # <<showHomePage, session>>]_vars

\* C14: once a failure has been surfaced, and no session is stored, the user
\* can start a new attempt: the Login button that calls startAuthentication
\* is rendered.
C14_LoginOfferedAfterFailure ==
    (/\ ev.op \in {"urlAction", "resolves"}
     /\ ev.result \in ReportedFailures
     /\ session = <<>>)
        => showHomePage

\* C15: a callback-named activation received while a browser handle is held
\* closes the window and sets the handle to null, whether its state matches
\* the stored one or not.
C15_CallbackClosesHandle ==
    [][\A action \in OAuthActions, now \in NowValues :
          (UrlActionListener(action, now) /\ loginWindow # NoWindow)
             => /\ loginWindow' = NoWindow
                /\ loginWindow \notin openWindows'
                /\ ev'.closed = loginWindow]_vars

\* A callback with another state than the stored one has closed the window
\* the handle referred to.
C15_Witness ==
    /\ ev.op = "urlAction"
    /\ ev.result = "mismatch"
    /\ ev.closed # NoWindow
    /\ ev.closed \notin openWindows
    /\ loginWindow = NoWindow

\* C16: cancelAuthentication leaves the session fields as they were, in
\* every state where the "cancel login" link is rendered.
C16_CancelKeepsSession ==
    [][CancelAuthentication => session' = session]_vars

\* The second attempt has just been cancelled while the user-info request of
\* the first is still outstanding.
C16_Witness ==
    /\ ev.op = "cancelAuthentication"
    /\ nextId >= 3
    /\ inflight # EmptyBag
    /\ session = <<>>

\* C17: an action whose name is not the return path is dropped: the handle,
\* the stored state, the App's session and page are as before, no user-info
\* request is sent, no window is closed and no failure is reported.
C17_UnknownActionDropped ==
    [][\A now \in NowValues :
          UrlActionListener(UnknownAction, now)
             => /\ UNCHANGED <<loginWindow, oauthState, session, showHomePage,
                               inflight, openWindows>>
                /\ ev'.result = "ignored"]_vars

\* An unknown action has just been dropped in the middle of an attempt: the
\* handle is held and the window is open.
C17_Witness ==
    /\ ev.op = "urlAction"
    /\ ev.result = "ignored"
    /\ loginWindow # NoWindow
    /\ loginWindow \in openWindows
    /\ oauthState # NullState
    /\ ~showHomePage

\* C8: a process that did not get the single-instance lock handles nothing:
\* it parses and forwards no activation, not even its own launch arguments,
\* registers no scheme and creates no window.
C8_DuplicateHandlesNothing ==
    ~gotLock =>
        /\ parsed = <<>>
        /\ sent = <<>>
        /\ registered = <<>>
        /\ mainWindow = "null"
        /\ ~creating

\* The process was started by the operating system for the callback URL: on
\* Windows by the registered command, elsewhere with the URL as argument.
ColdStartedWithUrl ==
    /\ platform # "darwin"
    /\ argv = BaseArgv(devMode) \o
            (IF platform = "win32" THEN <<protocolLauncherArg, CallbackUrl>>
             ELSE <<CallbackUrl>>)

\* C9: the URL a process was cold-started with is parsed and its action is
\* delivered to the renderer's listener once the window is loaded.
C9_ColdStartDelivered ==
    (gotLock /\ ColdStartedWithUrl /\ mainWindow = "loaded")
        => \E i \in 1..Len(received) : received[i] = ParseAppURL(CallbackUrl)

\* The argument that follows the first launcher flag, if there is one.
ArgAfterFlag(args) ==
    IF FlagIndex(args) # 0 /\ FlagIndex(args) < Len(args)
    THEN <<args[FlagIndex(args) + 1]>>
    ELSE <<>>

\* C18: whatever handlePossibleProtocolLauncherArgs hands to the parser is,
\* on Windows, the argument right after the launcher flag, and elsewhere
\* the second argument; no other argument is forwarded.
C18_ForwardsArgAfterFlag ==
    [][\A args \in SecondInstanceArgs :
          (SecondInstance(args) /\ parsed' # parsed)
             => parsed' = parsed \o (IF platform = "win32" THEN ArgAfterFlag(args)
                                     ELSE <<args[2]>>)]_vars

HasRedirectUri(url, uri) ==
    \E i \in 1..Len(url) :
        /\ url[i] = "redirect_uri="
        /\ \A j \in 1..(i - 1) : url[j] # "redirect_uri="
        /\ SubSeq(url, i + 1, Len(url)) = uri

EncodeToken(t) ==
    CASE t = ":" -> "%3A"
      [] t = "/" -> "%2F"
      [] t = "//" -> "%2F%2F"
      [] OTHER -> t

EncodeURIComponent(str) == [i \in 1..Len(str) |-> EncodeToken(str[i])]

\* C21: the values startLogin puts into the authorization URL are
\* URL-encoded: the value of redirect_uri is the encoded redirect URL, so
\* that a direct redirect reads scheme%3A%2F%2Fpath.
C21_ValuesUrlEncoded ==
    authUrl # <<>> =>
        HasRedirectUri(authUrl,
            EncodeURIComponent(SubSeq(RedirectUrl(env), 2, Len(RedirectUrl(env)))))

\* C22: the expiry of a stored session is the time its callback was
\* processed plus (expiresIn - 600) seconds, in milliseconds, which is 600
\* seconds before that time plus expiresIn, also for expiresIn below 600.
C22_ExpiryHasBuffer ==
    session # <<>> =>
        \E p \in OAuthPayloads, now \in NowValues :
            /\ p.accessToken = session[1].accessToken
            /\ session[1].expires = now + (p.expiresIn - 600) * 1000
            /\ session[1].expires + 600 * 1000 = now + p.expiresIn * 1000

\* A session is stored whose token was to expire within the buffer: its
\* expiry lies before the time the callback was processed.
C22_Witness ==
    /\ session # <<>>
    /\ \E p \in OAuthPayloads, now \in NowValues :
          /\ p.accessToken = session[1].accessToken
          /\ p.expiresIn < 600
          /\ session[1].expires < now

\* s ends with t.
EndsWith(s, t) ==
    /\ Len(t) <= Len(s)
    /\ \A i \in 1..Len(t) : t[i] = s[Len(s) - Len(t) + i]

\* C23: in a stored session externalAccountId is the last 10 characters of
\* accountId, or all of it when it has fewer, and accountId, accountName
\* and baseUri are those of one account of the payload that is marked default.
C23_ExternalAccountIdIsSuffix ==
    session # <<>> =>
        /\ Len(session[1].externalAccountId)
              = (IF Len(session[1].accountId) < 10 THEN Len(session[1].accountId) ELSE 10)
        /\ EndsWith(session[1].accountId, session[1].externalAccountId)
        /\ \E u \in UserInfos : \E i \in 1..Len(u.accounts) :
              /\ u.accounts[i].is_default
              /\ u.name = session[1].name
              /\ session[1].accountId = u.accounts[i].account_id
              /\ session[1].accountName = u.accounts[i].account_name
              /\ session[1].baseUri = u.accounts[i].base_uri

\* A session is stored for an account whose id has 12 characters, the
\* external id being the last 10.
C23_Witness ==
    /\ session # <<>>
    /\ Len(session[1].accountId) = 12
    /\ session[1].externalAccountId = SubSeq(session[1].accountId, 3, 12)
    /\ session[1].accountName = "Acme"

\* The characters of str are lowercase hexadecimal digits.
IsLowerHex(str) ==
    \A i \in 1..Len(str) : \E d \in 1..Len(HexDigits) : str[i] = HexDigits[d]

\* C24 as stated: generateId(len) returns lowercase hexadecimal characters,
\* 2 * len of them, for every positive len and for the default.
C24_HexOfTwiceTheLength ==
    (gen.called /\ gen.len > 0) =>
        (IsLowerHex(gen.out) /\ Len(gen.out) = 2 * gen.len)

\* C24: generateId(len) returns lowercase hexadecimal characters, two for
\* each of its len / 2 bytes (the quotient cut to an integer): len of them
\* for an even len, 40 for the default.
C24_HexOfTheLength ==
    gen.called =>
        /\ IsLowerHex(gen.out)
        /\ Len(gen.out) = 2 * ((IF gen.len = 0 THEN 40 ELSE gen.len) \div 2)
        /\ (gen.len > 0 /\ gen.len % 2 = 0) => Len(gen.out) = gen.len

\* generateId has returned 40 characters for the default len, from bytes
\* that need the leading zero.
C24_Witness ==
    /\ gen.called
    /\ gen.len = 40
    /\ Len(gen.out) = 40
    /\ gen.out[1] = "0"
    /\ gen.out[2] = "a"

\* C25: when startLogin has been called while the user-info request of an
\* earlier attempt was outstanding, the end of that request stores no
\* session for the superseded attempt and leaves the new attempt as it is:
\* the App stays on the Login page.
C25_SupersededExchangeIsDropped ==
    [][\A req \in BagToSet(inflight), resp \in Responses :
          (Resolves(req, resp) /\ req.state # oauthState)
             => /\ session' = session
                /\ showHomePage' = showHomePage
                /\ phase' = phase]_vars

\* C26: a user-info request is sent only by a callback whose state equals
\* the stored one, it carries that callback's access token, and one
\* request is sent for it; no other step of the program sends a request.
C26_OneRequestPerAcceptedCallback ==
    [][/\ \A action \in OAuthActions, now \in NowValues :
             (UrlActionListener(action, now) /\ inflight' # inflight)
                => /\ action.state = oauthState
                   /\ BagCardinality(inflight') = BagCardinality(inflight) + 1
                   /\ \E r \in BagToSet(inflight') :
                         /\ r.accessToken = action.accessToken
                         /\ r.state = action.state
                         /\ inflight' = inflight (+) SetToBag({r})
       /\ BagCardinality(inflight') > BagCardinality(inflight)
             => (ev'.op = "urlAction" /\ ev'.result = "exchange")]_vars

\* The callback with the stored state and the short-lived token has just
\* been accepted: one request is outstanding, with that token.
C26_Witness ==
    /\ ev.op = "urlAction"
    /\ ev.result = "exchange"
    /\ ev.state = oauthState
    /\ BagCardinality(inflight) = 1
    /\ \E r \in BagToSet(inflight) : r.accessToken = "tokB" /\ r.state = oauthState

\* Nothing in args for handlePossibleProtocolLauncherArgs to forward on
\* Windows: the launcher flag is missing, or no argument starts with the
\* scheme name.
NothingToForward(args) ==
    \/ \A i \in 1..Len(args) : args[i] # protocolLauncherArg
    \/ \A i \in 1..Len(args) : ~StartsWith(args[i], SCHEME_NAME)

\* C27: on Windows handlePossibleProtocolLauncherArgs does not call
\* handleAppURL, so that nothing is parsed or sent, when the arguments lack
\* the launcher flag or hold no argument that starts with the scheme name.
C27_NothingForwardedWithoutFlagOrUrl ==
    [][/\ (MainLine /\ platform = "win32" /\ NothingToForward(argv))
             => (parsed' = parsed /\ sent' = sent)
       /\ \A args \in SecondInstanceArgs :
             (SecondInstance(args) /\ platform = "win32" /\ NothingToForward(args))
                => (parsed' = parsed /\ sent' = sent)]_vars

\* On Windows a process started with the callback URL but without the flag
\* has run its main line and a window is loaded; nothing has been parsed.
C27_Witness ==
    /\ platform = "win32"
    /\ argv = BaseArgv(devMode) \o <<CallbackUrl>>
    /\ mpc = "running"
    /\ mainWindow = "loaded"
    /\ activations = 0
    /\ parsed = <<>>
    /\ sent = <<>>

\* C28: an activation handed to handleAppURL gives one 'url-action' message
\* when the main window exists at that moment and none when it does not;
\* nothing else sends a message, so a dropped activation is not delivered
\* later, and the messages are in the order of the activations.
C28_OneMessagePerActivationWithWindow ==
    [][/\ parsed' # parsed
             => /\ Len(parsed') = Len(parsed) + 1
                /\ SubSeq(parsed', 1, Len(parsed)) = parsed
                /\ sent' = IF mainWindow # "null"
                           THEN Append(sent, ParseAppURL(parsed'[Len(parsed')]))
                           ELSE sent
       /\ parsed' = parsed => sent' = sent]_vars

\* The first activation came when there was no window and was dropped; the
\* second, another URL, was sent.
C28_Witness ==
    /\ Len(parsed) = 2
    /\ parsed[1] # parsed[2]
    /\ sent = <<ParseAppURL(parsed[2])>>

====
